---- MODULE Spec2Model ----
(***************************************************************************)
(* State-machine model of nsx-api.py: the interactive NSX-T certificate    *)
(* management client.  One operator session is modelled: the main menu,    *)
(* the certificate / node pickers, the listing, the validation, the three  *)
(* rollout operations, the CRL toggle, the assignment report and the       *)
(* backend's answers to every HTTP call.                                   *)
(*                                                                         *)
(* Python values are modelled as follows.                                  *)
(*   - a line typed by the operator is a sequence of characters;           *)
(*   - None is the string NoneVal;                                         *)
(*   - what api_call returns is a record: [kind |-> "None"], a JSON        *)
(*     object [kind |-> "obj", keys, val] or raw text                      *)
(*     [kind |-> "text", keys, len], where keys are the key names the      *)
(*     object holds (the text contains as substrings);                     *)
(*   - an uncaught exception ends the program: pc = "crashed", exc names   *)
(*     the function and the exception.                                     *)
(*                                                                         *)
(* Spec is the operator session.  SpecExpiry is the Expiry column of the   *)
(* certificate listing and of the assignment report, for every evaluation  *)
(* time and expiration date of the bounded sets.                           *)
(***************************************************************************)
EXTENDS Integers, Sequences, FiniteSets, TLC

\* ------------------------------------------------------------------ bounds
MaxCerts == 2
MaxNodes == 2
MaxInputLen == 2
MaxRev == 1
MaxDay == 34

\* ------------------------------------------------------- program constants
HttpErrorMin == 400
DefaultRevision == 0
ExpiringSoonDays == 30
SecondsPerDay == 86400

VARIABLES
    pc,           \* position of the program: the prompt or call it is blocked at
    op,           \* menu option being executed ("" at start)
    calls,        \* HTTP requests issued by the current operation, in order
    last,         \* what the transport did with the latest request
    certs,        \* list_certs: the inventory it returned
    vip_cert_id,  \* list_certs: what get_vip_cert_id returned
    rows,         \* list_certs: per table row, whether the name got the VIP mark
    cert_id,      \* the picked certificate id
    nodes,        \* node list fetched by pick_node / apply_cert_all_nodes
    node,         \* pick_node: the picked node
    idx,          \* sweep: index of the next node to process
    results,      \* sweep: the results list
    confirmed,    \* the operator answered y to a confirmation prompt
    answer,       \* the line typed at the confirmation prompt, <<>> before it
    payload,      \* disable_crl_checking: payload built after the read
    shown,        \* last message printed on the console by the operation
    logged,       \* last record the operation wrote to the log
    exc,          \* the uncaught exception, "" when none
    srv_rev,      \* backend: _revision of SecurityGlobalConfig
    srv_crl,      \* backend: crl_checking_enabled
    now,          \* expiry column: datetime.now(timezone.utc)
    cert,         \* expiry column: the certificate being rendered
    listed,       \* expiry column: the cell list_certs renders for cert
    reported,     \* expiry column: the cell show_assignments renders for cert
    others,       \* expiry column: the cells list_certs renders after cert's
    returned      \* expiry column: the certs list that list_certs builds

\* The expiry column of the two tables is modelled on its own (SpecExpiry).
render == <<now, cert, listed, reported, others, returned>>

session == <<pc, op, calls, last, certs, vip_cert_id, rows, cert_id, nodes, node,
             idx, results, confirmed, answer, payload, shown, logged, exc,
             srv_rev, srv_crl>>

vars == <<session, render>>

\* ---------------------------------------------------------- Python values
NoneVal == "None"

None == [kind |-> "None"]

JsonObj(keys, val) == [kind |-> "obj", keys |-> keys, val |-> val]

Text(len, keys) == [kind |-> "text", keys |-> keys, len |-> len]

\* bool(x) for what api_call returns: None, {} and "" are falsy.
Truthy(d) ==
    CASE d.kind = "None" -> FALSE
      [] d.kind = "obj"  -> d.keys # {}
      [] d.kind = "text" -> d.len > 0

\* `key in d` for a dict (key lookup) or a str (substring test).
In(key, d) == key \in d.keys

\* ------------------------------------------------------------ operator input
\* The characters a typed line is made of: letters, the space, decimal
\* digits and SUPERSCRIPT TWO (a digit for str.isdigit, not for int).
Chars == {"b", "B", "y", "Y", "sp", "0", "1", "2", "sup2"}

AsciiDigits == {"0", "1", "2"}

\* Characters for which str.isdigit() is true: the ASCII digits and other
\* Unicode digits such as SUPERSCRIPT TWO.
UnicodeDigits == AsciiDigits \cup {"sup2"}

Lines == UNION {[1..n -> Chars] : n \in 0..MaxInputLen}

RECURSIVE LStrip(_)
LStrip(s) == IF s # <<>> /\ Head(s) = "sp" THEN LStrip(Tail(s)) ELSE s

RECURSIVE RStrip(_)
RStrip(s) ==
    IF s # <<>> /\ s[Len(s)] = "sp" THEN RStrip(SubSeq(s, 1, Len(s) - 1)) ELSE s

\* str.strip()
Strip(s) == RStrip(LStrip(s))

LowerChar(c) == CASE c = "B" -> "b" [] c = "Y" -> "y" [] OTHER -> c

\* str.lower()
Lower(s) == [i \in 1..Len(s) |-> LowerChar(s[i])]

\* str.isdigit(): non-empty and every character is a digit character.
IsDigit(s) == s # <<>> /\ \A i \in 1..Len(s) : s[i] \in UnicodeDigits

\* int(s) raises ValueError unless every character is a decimal digit.
IntRaises(s) == \E i \in 1..Len(s) : s[i] \notin AsciiDigits

DigitVal(c) == CASE c = "0" -> 0 [] c = "1" -> 1 [] c = "2" -> 2

RECURSIVE int(_)
int(s) == IF s = <<>> THEN 0
          ELSE 10 * int(SubSeq(s, 1, Len(s) - 1)) + DigitVal(s[Len(s)])

\* ------------------------------------------------------------------ transport
\* What the HTTP layer can do with one request: raise (connection error,
\* timeout), or answer with a status and a body.
\* The body of an error answer: {"error_code": ..., "error_message": ...}.
ErrorBody == JsonObj({"error_code", "error_message"}, NoneVal)

Raised == [exc |-> TRUE, status |-> 0, body |-> None]

Answer(status, body) == [exc |-> FALSE, status |-> status, body |-> body]

\* 200 OK with a body.
Ok(body) == Answer(200, body)

\* 400 Bad Request.
Refused == Answer(400, ErrorBody)

\* 412 Precondition Failed: the backend's answer to a stale _revision.
Stale == Answer(412, ErrorBody)

HttpOutcomes(bodies) == {Raised, Refused} \cup {Ok(b) : b \in bodies}

\* api_call: None on an exception or a status >= 400, else the parsed body.
api_call(http) ==
    IF http.exc THEN None
    ELSE IF http.status >= HttpErrorMin THEN None
    ELSE http.body

\* One entry of the call history: the request and what the transport did.
\* One entry of the request history; rev is the _revision the payload
\* carries (-1 when there is none).
Call(method, ep, base, cid, rev) ==
    [method |-> method, ep |-> ep, base |-> base, cert |-> cid, rev |-> rev]

\* What the transport did with a request, without the documents it carried;
\* rev is the _revision of the answer (-1 when there is none), verdict the
\* value of its "status" field (None when there is none).
Outcome(http) ==
    [exc |-> http.exc, status |-> http.status, kind |-> http.body.kind,
     keys |-> IF http.body.kind = "None" THEN {} ELSE http.body.keys,
     rev |-> IF http.body.kind = "obj" /\ "_revision" \in http.body.keys
             THEN http.body.val ELSE -1,
     verdict |-> IF http.body.kind = "obj" /\ "status" \in http.body.keys
                 THEN http.body.val ELSE NoneVal]

NoCall ==
    [exc |-> FALSE, status |-> 0, kind |-> "None", keys |-> {}, rev |-> -1,
     verdict |-> NoneVal]

\* A base URL is the scheme and the host put into the f-string.
BaseUrl(host) == <<"https://", host>>

\* cfg["nsx_url"], the cluster entry point.
Manager == BaseUrl("nsxmgr.local")

\* ------------------------------------------------------------ backend data
CertIds == {"c1", "c2"}

\* A certificate of the inventory; id = Absent models a dict with no "id" key.
Absent == "absent"

Certs == {[id |-> i] : i \in CertIds \cup {Absent}}

\* dict.get(key): None when the key is missing.
Get(v) == IF v = Absent THEN NoneVal ELSE v

SeqsUpTo(S, n) == UNION {[1..k -> S] : k \in 0..n}

\* Bodies a 2xx answer can carry that are not the expected document: {}, an
\* object with other keys, empty text, text, text that contains the key name.
OddBodies(key) ==
    {JsonObj({}, NoneVal), JsonObj({"other"}, NoneVal),
     Text(0, {}), Text(1, {}), Text(1, {key})}

CertBodies ==
    {JsonObj({"results"}, l) : l \in SeqsUpTo(Certs, MaxCerts)}
    \cup OddBodies("results")

VipBodies ==
    {JsonObj({"certificate_id"}, i) : i \in CertIds} \cup OddBodies("certificate_id")

\* --------------------------------------------------------------- main menu
MenuInputs == {"1", "2", "3", "4", "5", "6", "7", "0", "other"}

\* The locals of the operation that ends are dropped.
ClearLocals ==
    /\ certs' = <<>>
    /\ vip_cert_id' = NoneVal
    /\ rows' = <<>>
    /\ cert_id' = NoneVal
    /\ nodes' = <<>>
    /\ node' = <<>>
    /\ idx' = 0
    /\ results' = <<>>
    /\ confirmed' = FALSE
    /\ answer' = <<>>
    /\ payload' = <<>>
    /\ exc' = ""

\* Mutant of FirstPc: option 7 is dispatched to disable_crl_checking.
FirstPc_Miswired(opt) ==
    CASE opt \in {"1", "2", "4", "5", "6"} -> "list_certs"
      [] opt \in {"3", "7"} -> "crl_read"
      [] opt = "0" -> "exited"
      [] OTHER -> "menu"

FirstPc(opt) ==
    CASE opt \in {"1", "2", "4", "5", "6"} -> "list_certs"
      [] opt = "3" -> "crl_read"
      [] opt = "7" -> "show_assignments"
      [] opt = "0" -> "exited"
      [] OTHER -> "menu"

\* main: one turn of the menu loop, up to the first call of the chosen
\* operation.
main ==
    /\ pc = "menu"
    /\ \E opt \in MenuInputs :
        /\ op' = opt
        /\ pc' = FirstPc(opt)
        /\ shown' = IF opt = "other" THEN "invalid_option"
                    ELSE IF opt = "0" THEN "goodbye" ELSE "none"
        /\ logged' = IF opt = "0" THEN "session_ended" ELSE "none"
    /\ calls' = <<>>
    /\ last' = NoCall
    /\ ClearLocals
    /\ UNCHANGED <<srv_rev, srv_crl>>
    /\ UNCHANGED render

\* An uncaught exception: the traceback ends the program.
Crash(what) ==
    /\ pc' = "crashed"
    /\ exc' = what

\* ------------------------------------------------------------- list_certs
\* get_vip_cert_id applied to what its api_call returned.
VipRaises(data) ==
    Truthy(data) /\ In("certificate_id", data) /\ data.kind = "text"

get_vip_cert_id(data) ==
    IF Truthy(data) /\ In("certificate_id", data) THEN data.val ELSE NoneVal

\* The VIP mark of one table row (line 157).
IsVipRow(c, vip) == Get(c.id) = vip

\* Mutant of AfterListCerts: the caller goes on to its confirmation prompt
\* with the None that pick_cert returned for an empty inventory.
AfterListCerts_NoneIgnored(inventory) ==
    IF inventory = <<>> THEN "confirm_cluster" ELSE "pick_cert"

\* pick_cert, lines 176-178: where it goes with the inventory list_certs
\* returned.
AfterListCerts(inventory) == IF inventory = <<>> THEN "menu" ELSE "pick_cert"

list_certs ==
    /\ pc = "list_certs"
    /\ \E h1 \in HttpOutcomes(CertBodies), h2 \in HttpOutcomes(VipBodies) :
        LET data  == api_call(h1)
            vdata == api_call(h2)
            cs    == Call("GET", "certificates", Manager, NoneVal, -1)
            cv    == Call("GET", "api-certificate", Manager, NoneVal, -1)
        IN  /\ calls' = calls \o <<cs, cv>>
            /\ last' = Outcome(h2)
            /\ IF VipRaises(vdata)
               THEN /\ Crash("get_vip_cert_id:TypeError")
                    /\ UNCHANGED <<certs, vip_cert_id, rows, shown>>
               ELSE IF ~Truthy(data) \/ ~In("results", data)
               THEN /\ shown' = "no_certs"
                    /\ pc' = "menu"
                    /\ vip_cert_id' = get_vip_cert_id(vdata)
                    /\ UNCHANGED <<certs, rows, exc>>
               ELSE IF data.kind = "text"
               THEN /\ Crash("list_certs:TypeError")
                    /\ vip_cert_id' = get_vip_cert_id(vdata)
                    /\ UNCHANGED <<certs, rows, shown>>
               ELSE /\ certs' = data.val
                    /\ vip_cert_id' = get_vip_cert_id(vdata)
                    /\ rows' = [i \in 1..Len(data.val) |->
                                  IsVipRow(data.val[i], get_vip_cert_id(vdata))]
                    /\ shown' = "cert_table"
                    /\ pc' = IF op = "1" THEN "press_enter"
                             ELSE AfterListCerts(data.val)
                    /\ UNCHANGED exc
    /\ UNCHANGED <<op, cert_id, nodes, node, idx, results, confirmed, answer, payload,
                   logged, srv_rev, srv_crl>>
    /\ UNCHANGED render

\* list_certs(return_json=False): input("Press Enter to continue...")
press_enter ==
    /\ pc = "press_enter"
    /\ pc' = "menu"
    /\ UNCHANGED <<op, calls, last, certs, vip_cert_id, rows, cert_id, nodes, node,
                   idx, results, confirmed, answer, payload, shown, logged, exc, srv_rev,
                   srv_crl>>
    /\ UNCHANGED render

\* -------------------------------------------------------------- pick_cert
\* The selection loop shared by pick_cert and pick_node: what one typed line
\* does against a list of n entries.
Selection(line, n) ==
    LET t == Strip(line) IN
    IF Lower(t) = <<"b">> THEN [kind |-> "back", i |-> 0]
    ELSE IF IsDigit(t)
         THEN IF IntRaises(t) THEN [kind |-> "ValueError", i |-> 0]
              ELSE IF 0 <= int(t) /\ int(t) < n
                   THEN [kind |-> "index", i |-> int(t)]
                   ELSE [kind |-> "invalid", i |-> 0]
         ELSE [kind |-> "invalid", i |-> 0]

AfterPickCert(opt) ==
    CASE opt = "2" -> "validate"
      [] opt = "4" -> "confirm_cluster"
      [] opt = "5" -> "pick_node_fetch"
      [] opt = "6" -> "all_nodes_fetch"

\* pick_cert returns: the inventory, the VIP id and the table are its and
\* list_certs' locals.
Returned ==
    /\ certs' = <<>>
    /\ vip_cert_id' = NoneVal
    /\ rows' = <<>>

pick_cert ==
    /\ pc = "pick_cert"
    /\ \E sel \in {Selection(line, Len(certs)) : line \in Lines} :
        CASE sel.kind = "back" ->
                /\ pc' = "menu"
                /\ Returned
                /\ UNCHANGED <<cert_id, shown, exc>>
          [] sel.kind = "ValueError" ->
                /\ Crash("pick_cert:ValueError")
                /\ UNCHANGED <<certs, vip_cert_id, rows, cert_id, shown>>
          [] sel.kind = "invalid" ->
                /\ shown' = "invalid_selection"
                /\ UNCHANGED <<pc, certs, vip_cert_id, rows, cert_id, exc>>
          [] sel.kind = "index" ->
                IF certs[sel.i + 1].id = Absent
                THEN /\ Crash("pick_cert:KeyError")
                     /\ UNCHANGED <<certs, vip_cert_id, rows, cert_id, shown>>
                ELSE /\ cert_id' = certs[sel.i + 1].id
                     /\ pc' = AfterPickCert(op)
                     /\ Returned
                     /\ UNCHANGED <<shown, exc>>
    /\ UNCHANGED <<op, calls, last, nodes, node, idx, results, confirmed, answer, payload,
                   logged, srv_rev, srv_crl>>
    /\ UNCHANGED render

\* ----------------------------------------------------------- validate_cert
\* What GET certificates/<id>?action=validate can be answered with a 2xx
\* status: a document whose status is "OK" or something else, and the odd
\* bodies.
ValidateBodies ==
    {JsonObj({"status"}, v) : v \in {"OK", "REJECTED"}} \cup OddBodies("status")

\* data.get("status") of a dict.
StatusOf(data) == IF In("status", data) THEN data.val ELSE NoneVal

\* validate_cert after pick_cert returned an id.
validate_cert ==
    /\ pc = "validate"
    /\ \E h \in HttpOutcomes(ValidateBodies) :
        LET data == api_call(h) IN
        /\ calls' = Append(calls, Call("GET", "validate", Manager, cert_id, -1))
        /\ last' = Outcome(h)
        /\ IF Truthy(data) /\ data.kind = "text"
           THEN /\ Crash("validate_cert:AttributeError")
                /\ UNCHANGED <<shown, logged>>
           ELSE /\ pc' = "menu"
                /\ UNCHANGED exc
                /\ IF Truthy(data) /\ StatusOf(data) = "OK"
                   THEN shown' = "validation_ok" /\ logged' = "validated_ok"
                   ELSE shown' = "validation_error" /\ logged' = "validation_error"
    /\ UNCHANGED <<op, certs, vip_cert_id, rows, cert_id, nodes, node, idx, results,
                   confirmed, answer, payload, srv_rev, srv_crl>>
    /\ UNCHANGED render

\* -------------------------------------------------------- show_assignments
\* show_assignments: the VIP assignment (its fields are listed with
\* data.items()), then the certificates bound to the API service.  The
\* Expiry cells of the second table are modelled in SpecExpiry.
show_assignments ==
    /\ pc = "show_assignments"
    /\ \E h1 \in HttpOutcomes(VipBodies), h2 \in HttpOutcomes(CertBodies) :
        LET vdata == api_call(h1)
            data  == api_call(h2)
            cv    == Call("GET", "api-certificate", Manager, NoneVal, -1)
            cs    == Call("GET", "certificates", Manager, NoneVal, -1)
        IN  IF Truthy(vdata) /\ vdata.kind = "text"
            THEN /\ calls' = Append(calls, cv)
                 /\ last' = Outcome(h1)
                 /\ Crash("show_assignments:AttributeError")
                 /\ shown' = "vip_assignment_header"
                 /\ UNCHANGED logged
            ELSE /\ calls' = calls \o <<cv, cs>>
                 /\ last' = Outcome(h2)
                 /\ IF Truthy(data) /\ In("results", data)
                    THEN IF data.kind = "text"
                         THEN /\ Crash("show_assignments:TypeError")
                              /\ shown' = "node_assignments_header"
                              /\ logged' = "showed_vip_assignment"
                         ELSE /\ pc' = "menu"
                              /\ shown' = "node_assignments_table"
                              /\ logged' = "showed_node_assignments"
                              /\ UNCHANGED exc
                    ELSE /\ pc' = "menu"
                         /\ shown' = "node_assignments_header"
                         /\ logged' = "showed_node_assignments"
                         /\ UNCHANGED exc
    /\ UNCHANGED <<op, certs, vip_cert_id, rows, cert_id, nodes, node, idx, results,
                   confirmed, answer, payload, srv_rev, srv_crl>>
    /\ UNCHANGED render

\* ---------------------------------------------------------------- nodes
\* The node documents the backend may list: with fqdn, with ip_address, with
\* both, with neither (only a role), and the empty document {}.
Nodes ==
    {[fqdn |-> "n1",   ip_address |-> Absent,     node_role |-> "mgr"],
     [fqdn |-> Absent, ip_address |-> "10.0.0.2", node_role |-> "mgr"],
     [fqdn |-> "n3",   ip_address |-> "10.0.0.3", node_role |-> "mgr"],
     [fqdn |-> Absent, ip_address |-> Absent,     node_role |-> "mgr"],
     [fqdn |-> Absent, ip_address |-> Absent,     node_role |-> Absent]}

NodeBodies ==
    {JsonObj({"nodes"}, l) : l \in SeqsUpTo(Nodes, MaxNodes)} \cup OddBodies("nodes")

\* bool(node) of a node dict: false for {}.
NodeTruthy(n) ==
    n.fqdn # Absent \/ n.ip_address # Absent \/ n.node_role # Absent

\* Mutant of FqdnOrIp: the ip_address is preferred to the fqdn.
FqdnOrIp_IpFirst(n) ==
    IF Get(n.ip_address) # NoneVal THEN n.ip_address ELSE Get(n.fqdn)

\* node_fqdn or node_ip
FqdnOrIp(n) == IF Get(n.fqdn) # NoneVal THEN n.fqdn ELSE Get(n.ip_address)

\* What the apply call can be answered with a 2xx status.
ApplyBodies == OddBodies("error_code") \cup {JsonObj({"error_code"}, NoneVal)}

\* Mutant of NoNodeList: `if not nodes`, which also rejects an empty list.
NoNodeList_EmptyRejected(data) ==
    \/ ~Truthy(data)
    \/ ~In("nodes", data)
    \/ data.kind = "obj" /\ data.val = <<>>

\* Lines 190 and 301: the test that rejects the answer of GET /cluster/nodes.
NoNodeList(data) == ~Truthy(data) \/ ~In("nodes", data)

\* --------------------------------------------------------------- pick_node
\* pick_node up to its prompt: the fetch and the table.
pick_node_fetch ==
    /\ pc = "pick_node_fetch"
    /\ \E h \in HttpOutcomes(NodeBodies) :
        LET data == api_call(h) IN
        /\ calls' = Append(calls, Call("GET", "nodes", Manager, NoneVal, -1))
        /\ last' = Outcome(h)
        /\ IF NoNodeList(data)
           THEN /\ shown' = "no_nodes"
                /\ pc' = "menu"
                /\ UNCHANGED <<nodes, exc>>
           ELSE IF data.kind = "text"
           THEN /\ Crash("pick_node:TypeError")
                /\ UNCHANGED <<nodes, shown>>
           ELSE /\ nodes' = data.val
                /\ shown' = "node_table"
                /\ pc' = "pick_node"
                /\ UNCHANGED exc
    /\ UNCHANGED <<op, certs, vip_cert_id, rows, cert_id, node, idx, results,
                   confirmed, answer, payload, logged, srv_rev, srv_crl>>
    /\ UNCHANGED render

\* pick_node's prompt, and apply_cert_node up to its confirmation prompt.
\* The fetched list is pick_node's local: it is gone when pick_node returns.
pick_node ==
    /\ pc = "pick_node"
    /\ \E sel \in {Selection(line, Len(nodes)) : line \in Lines} :
        CASE sel.kind = "back" ->
                /\ pc' = "menu"
                /\ nodes' = <<>>
                /\ UNCHANGED <<node, shown, exc>>
          [] sel.kind = "ValueError" ->
                /\ Crash("pick_node:ValueError")
                /\ UNCHANGED <<nodes, node, shown>>
          [] sel.kind = "invalid" ->
                /\ shown' = "invalid_selection"
                /\ UNCHANGED <<pc, nodes, node, exc>>
          [] sel.kind = "index" ->
                LET n == nodes[sel.i + 1] IN
                /\ node' = <<n>>
                /\ nodes' = <<>>
                /\ UNCHANGED exc
                /\ IF ~NodeTruthy(n)
                   THEN pc' = "menu" /\ UNCHANGED shown
                   ELSE IF FqdnOrIp(n) = NoneVal
                   THEN pc' = "menu" /\ shown' = "node_no_address"
                   ELSE pc' = "confirm_node" /\ UNCHANGED shown
    /\ UNCHANGED <<op, calls, last, certs, vip_cert_id, rows, cert_id, idx,
                   results, confirmed, answer, payload, logged, srv_rev, srv_crl>>
    /\ UNCHANGED render

\* --------------------------------------------------- confirmation prompts
\* Mutant of Affirmative: the answer is not stripped.
Affirmative_NoStrip(line) == Lower(line) = <<"y">>

\* input(...).strip().lower() compared with "y".
Affirmative(line) == Lower(Strip(line)) = <<"y">>

\* Lines 255 and 289: the test that sends the single-target operations to
\* their error branch.
ApplyFailedSingle(data) == Truthy(data) /\ In("error_code", data)

\* apply_cert_cluster and apply_cert_node from the confirmation prompt on.
ApplySingle(here, ep, base) ==
    /\ pc = here
    /\ \E line \in Lines :
        /\ answer' = <<line>>
        /\ IF ~Affirmative(line)
           THEN /\ shown' = "aborted"
                /\ pc' = "menu"
                /\ UNCHANGED <<calls, last, confirmed, logged>>
           ELSE \E h \in HttpOutcomes(ApplyBodies) :
                LET data == api_call(h) IN
                /\ confirmed' = TRUE
                /\ calls' = Append(calls, Call("POST", ep, base, cert_id, -1))
                /\ last' = Outcome(h)
                /\ pc' = "menu"
                /\ IF ApplyFailedSingle(data)
                   THEN shown' = "error_applying" /\ logged' = "error_applying"
                   ELSE shown' = "applied_successfully" /\ logged' = "info_applied"
    /\ UNCHANGED <<op, certs, vip_cert_id, rows, cert_id, nodes, node, idx, results,
                   payload, exc, srv_rev, srv_crl>>
    /\ UNCHANGED render

apply_cert_cluster == ApplySingle("confirm_cluster", "set_cluster_certificate", Manager)

apply_cert_node ==
    /\ node # <<>>
    /\ ApplySingle("confirm_node", "apply_certificate", BaseUrl(FqdnOrIp(node[1])))

\* ---------------------------------------------------- apply_cert_all_nodes
\* Line 317: the test that marks a node's result Success.
SweepSuccess(resp) == Truthy(resp) /\ ~In("error_code", resp)

\* apply_cert_all_nodes after pick_cert: the node fetch.  An empty list runs
\* the loop zero times and prints the (empty) summary.
all_nodes_fetch ==
    /\ pc = "all_nodes_fetch"
    /\ \E h \in HttpOutcomes(NodeBodies) :
        LET data == api_call(h) IN
        /\ calls' = Append(calls, Call("GET", "nodes", Manager, NoneVal, -1))
        /\ last' = Outcome(h)
        /\ IF NoNodeList(data)
           THEN /\ shown' = "no_nodes"
                /\ pc' = "menu"
                /\ UNCHANGED <<nodes, idx, exc>>
           ELSE IF data.kind = "text"
           THEN /\ Crash("apply_cert_all_nodes:TypeError")
                /\ UNCHANGED <<nodes, idx, shown>>
           ELSE /\ nodes' = data.val
                /\ idx' = 1
                /\ shown' = IF data.val = <<>> THEN "summary" ELSE "none"
                /\ pc' = IF data.val = <<>> THEN "menu" ELSE "sweep"
                /\ UNCHANGED exc
    /\ UNCHANGED <<op, certs, vip_cert_id, rows, cert_id, node, results,
                   confirmed, answer, payload, logged, srv_rev, srv_crl>>
    /\ UNCHANGED render

\* One iteration of the loop over nodes; the last one prints the summary.
sweep ==
    /\ pc = "sweep"
    /\ idx <= Len(nodes)
    /\ \E h \in HttpOutcomes(ApplyBodies) :
        LET n     == nodes[idx]
            label == FqdnOrIp(n)
            resp  == api_call(h)
        IN  /\ calls' = Append(calls, Call("POST", "apply_certificate",
                                          BaseUrl(label), cert_id, -1))
            /\ last' = Outcome(h)
            /\ results' = Append(results,
                   IF SweepSuccess(resp)
                   THEN [node |-> label, result |-> "Success", detail |-> None]
                   ELSE [node |-> label, result |-> "Failed", detail |-> resp])
    /\ idx' = idx + 1
    /\ pc' = IF idx = Len(nodes) THEN "menu" ELSE "sweep"
    /\ shown' = IF idx = Len(nodes) THEN "summary" ELSE "node_result"
    /\ UNCHANGED <<op, certs, vip_cert_id, rows, cert_id, nodes, node, confirmed, answer,
                   payload, logged, exc, srv_rev, srv_crl>>
    /\ UNCHANGED render

\* --------------------------------------------------- disable_crl_checking
ConfigKeys == {"_revision", "crl_checking_enabled", "resource_type"}

\* What GET SecurityGlobalConfig can do: the backend's document carries its
\* current revision.
ConfigOutcomes ==
    HttpOutcomes({JsonObj(ConfigKeys, srv_rev)} \cup OddBodies("_revision"))

\* config.get("_revision", 0)
RevisionOf(config) ==
    IF In("_revision", config) THEN config.val ELSE DefaultRevision

\* disable_crl_checking up to its confirmation prompt: the read and the
\* payload.
crl_read ==
    /\ pc = "crl_read"
    /\ \E h \in ConfigOutcomes :
        LET config == api_call(h) IN
        /\ calls' = Append(calls, Call("GET", "SecurityGlobalConfig", Manager,
                                       NoneVal, -1))
        /\ last' = Outcome(h)
        /\ IF ~Truthy(config)
           THEN /\ pc' = "menu"
                /\ UNCHANGED <<payload, exc>>
           ELSE IF config.kind = "text"
           THEN /\ Crash("disable_crl_checking:AttributeError")
                /\ UNCHANGED payload
           ELSE /\ payload' = <<[crl_checking_enabled |-> FALSE,
                                 resource_type |-> "SecurityGlobalConfig",
                                 _revision |-> RevisionOf(config)]>>
                /\ pc' = "crl_confirm"
                /\ UNCHANGED exc
    /\ UNCHANGED <<op, certs, vip_cert_id, rows, cert_id, nodes, node, idx, results,
                   confirmed, answer, shown, logged, srv_rev, srv_crl>>
    /\ UNCHANGED render

\* The backend's handling of PUT SecurityGlobalConfig: a payload whose
\* _revision is not the current one is rejected (optimistic concurrency).
PutOutcomes(p) ==
    {Raised, Refused}
    \cup (IF p._revision # srv_rev
          THEN {Stale}
          ELSE IF srv_rev < MaxRev
          THEN {Ok(JsonObj(ConfigKeys, srv_rev + 1))}
          ELSE {})

\* disable_crl_checking from the confirmation prompt on.
crl_confirm ==
    /\ pc = "crl_confirm"
    /\ \E line \in Lines :
        /\ answer' = <<line>>
        /\ IF ~Affirmative(line)
           THEN /\ shown' = "aborted"
                /\ pc' = "menu"
                /\ UNCHANGED <<calls, last, confirmed, logged, srv_rev, srv_crl>>
           ELSE \E h \in PutOutcomes(payload[1]) :
                /\ confirmed' = TRUE
                /\ calls' = Append(calls, Call("PUT", "SecurityGlobalConfig", Manager,
                                               NoneVal, payload[1]._revision))
                /\ last' = Outcome(h)
                /\ IF ~h.exc /\ h.status < HttpErrorMin
                   THEN srv_rev' = srv_rev + 1 /\ srv_crl' = payload[1].crl_checking_enabled
                   ELSE UNCHANGED <<srv_rev, srv_crl>>
                /\ shown' = "printed_data"
                /\ logged' = "crl_disabled"
                /\ pc' = "menu"
    /\ UNCHANGED <<op, certs, vip_cert_id, rows, cert_id, nodes, node, idx, results,
                   payload, exc>>
    /\ UNCHANGED render

\* Another client updates SecurityGlobalConfig.  The program reads the
\* configuration only in disable_crl_checking, so an update during any other
\* operation is the same as one at the menu before or after it.
ExternalUpdate ==
    /\ pc \in {"menu", "crl_confirm"}
    /\ srv_rev < MaxRev
    /\ srv_rev' = srv_rev + 1
    /\ \E v \in BOOLEAN : srv_crl' = v
    /\ UNCHANGED <<pc, op, calls, last, certs, vip_cert_id, rows, cert_id, nodes,
                   node, idx, results, confirmed, answer, payload, shown, logged, exc>>
    /\ UNCHANGED render

\* ----------------------------------------------------------- expiry column
\* A datetime at one-second resolution: the day number and the second of the
\* day.  Microseconds are carried into the seconds the way seconds are
\* carried into the days.
Epoch == [day |-> 0, sec |-> 0]

\* Seconds of the day the model distinguishes: the first two and the last.
DaySeconds == {0, 1, SecondsPerDay - 1}

\* expiration_date values: no such key, the strings "" and "-", a string
\* strptime rejects, and a timestamp in the expected format.
NoStamp(kind) == [kind |-> kind, day |-> 0, sec |-> 0]

Stamp(day, sec) == [kind |-> "timestamp", day |-> day, sec |-> sec]

ExpirationDates ==
    {NoStamp(k) : k \in {"absent", "empty", "dash", "unparseable"}}
    \cup {Stamp(d, s) : d \in 0..MaxDay, s \in DaySeconds}

NoCert == [expiration_date |-> NoStamp("absent"), service_type |-> Absent]

\* cert.get("expiration_date", "-")
GetExpiry(c) ==
    IF c.expiration_date.kind = "absent" THEN NoStamp("dash") ELSE c.expiration_date

\* Mutant of timedelta: the day count truncated toward zero instead of
\* floored.
timedelta_truncated(a, b) ==
    LET total == (a.day - b.day) * SecondsPerDay + (a.sec - b.sec) IN
    [days |-> IF total < 0 THEN -((-total) \div SecondsPerDay)
              ELSE total \div SecondsPerDay,
     seconds |-> total % SecondsPerDay]

\* exp_dt - now: Python normalises the difference to days and 0 <= seconds <
\* 86400, so a negative seconds part borrows one day.
timedelta(a, b) ==
    LET ds == a.sec - b.sec IN
    IF ds < 0
    THEN [days |-> a.day - b.day - 1, seconds |-> ds + SecondsPerDay]
    ELSE [days |-> a.day - b.day, seconds |-> ds]

\* A rendered Expiry cell: the style, the suffix put after the date and the
\* day count the suffix shows.
Cell(style, suffix, days) == [style |-> style, suffix |-> suffix, days |-> days]

Plain == Cell("", "", 0)

\* An exception that leaves the loop body, in place of a cell.
Raise(e) == Cell("raise", e, 0)

\* Mutant of except_Exception: the handler lets the exception through.
except_Exception_Reraise(e, cell) == Raise(e)

\* except Exception: pass -- the exception is dropped and the row keeps the
\* style and text it had when the exception was raised.
except_Exception(e, cell) == cell

\* list_certs, lines 139-154: the Expiry cell of one certificate.  strptime
\* raises ValueError on a string that is not in the format.
list_certs_expiry(c, t) ==
    LET expiry == GetExpiry(c) IN
    IF expiry.kind \in {"empty", "dash"} THEN Plain
    ELSE IF expiry.kind = "unparseable" THEN except_Exception("ValueError", Plain)
    ELSE LET days_left == timedelta(expiry, t).days IN
         IF days_left < 0 THEN Cell("bold red", "EXPIRED", 0)
         ELSE IF days_left < ExpiringSoonDays THEN Cell("yellow", "d left", days_left)
         ELSE Plain

\* show_assignments, lines 353-367: the Expiry cell of one API certificate.
show_assignments_expiry(c, t) ==
    LET expiry == GetExpiry(c) IN
    IF expiry.kind \in {"empty", "dash"} THEN Plain
    ELSE IF expiry.kind = "unparseable" THEN except_Exception("ValueError", Plain)
    ELSE LET days_left == timedelta(expiry, t).days IN
         IF days_left < 0 THEN Cell("bold red", "EXPIRED", 0)
         ELSE IF days_left < ExpiringSoonDays THEN Cell("yellow", "d left", days_left)
         ELSE Plain

\* The certificate that follows cert in the listed inventory: one that
\* expired at the epoch.
Trailing == [expiration_date |-> Stamp(0, 0), service_type |-> "API"]

\* data["results"] of the listing.
Inventory == <<cert, Trailing>>

\* What a rendering step leaves alone in the session.
RenderFrame ==
    UNCHANGED <<op, calls, last, certs, vip_cert_id, rows, cert_id, nodes, node,
                idx, results, confirmed, answer, payload, shown, logged, srv_rev, srv_crl>>

\* One pass of the loop body of list_certs (lines 137-168) over certificate
\* c: certs.append, then the Expiry cell; an exception that leaves the body
\* ends the program.
ListRow(c, cells) ==
    LET cell == list_certs_expiry(c, now) IN
    /\ returned' = Append(returned, c)
    /\ IF cell.style = "raise"
       THEN Crash("list_certs:" \o cell.suffix) /\ UNCHANGED <<listed, others>>
       ELSE /\ cells' = Append(cells, cell)
            /\ UNCHANGED <<pc, exc>>

\* The first row of the certificate listing.
list_certs_row ==
    /\ pc = "render"
    /\ returned = <<>>
    /\ ListRow(cert, listed)
    /\ UNCHANGED others
    /\ RenderFrame
    /\ UNCHANGED <<now, cert, reported>>

\* The rows after the first.
list_certs_next ==
    /\ pc = "render"
    /\ returned # <<>>
    /\ Len(returned) < Len(Inventory)
    /\ ListRow(Inventory[Len(returned) + 1], others)
    /\ UNCHANGED listed
    /\ RenderFrame
    /\ UNCHANGED <<now, cert, reported>>

\* One row of the assignment report: only API certificates get one.
show_assignments_row ==
    /\ pc = "render"
    /\ reported = <<>>
    /\ cert.service_type = "API"
    /\ LET cell == show_assignments_expiry(cert, now) IN
       IF cell.style = "raise"
       THEN Crash("show_assignments:" \o cell.suffix) /\ UNCHANGED reported
       ELSE reported' = <<cell>> /\ UNCHANGED <<pc, exc>>
    /\ RenderFrame
    /\ UNCHANGED <<now, cert, listed, others, returned>>

\* ------------------------------------------------------------ specification
InitSession ==
    /\ op = ""
    /\ calls = <<>>
    /\ last = NoCall
    /\ certs = <<>>
    /\ vip_cert_id = NoneVal
    /\ rows = <<>>
    /\ cert_id = NoneVal
    /\ nodes = <<>>
    /\ node = <<>>
    /\ idx = 0
    /\ results = <<>>
    /\ confirmed = FALSE
    /\ answer = <<>>
    /\ payload = <<>>
    /\ shown = "none"
    /\ logged = "none"
    /\ exc = ""
    /\ srv_rev = 0
    /\ srv_crl = TRUE

Init ==
    /\ pc = "menu"
    /\ InitSession
    /\ now = Epoch
    /\ cert = NoCert
    /\ listed = <<>>
    /\ reported = <<>>
    /\ others = <<>>
    /\ returned = <<>>

Next ==
    \/ main
    \/ list_certs
    \/ press_enter
    \/ pick_cert
    \/ validate_cert
    \/ pick_node_fetch
    \/ pick_node
    \/ apply_cert_cluster
    \/ apply_cert_node
    \/ all_nodes_fetch
    \/ sweep
    \/ crl_read
    \/ crl_confirm
    \/ show_assignments
    \/ ExternalUpdate

Spec == Init /\ [][Next]_vars

\* The expiry column for every evaluation time and expiration date of the
\* bounded sets.
InitExpiry ==
    /\ pc = "render"
    /\ InitSession
    /\ now \in {[day |-> 3, sec |-> s] : s \in DaySeconds}
    /\ cert \in {[expiration_date |-> e, service_type |-> t] :
                    e \in ExpirationDates, t \in {"API", Absent}}
    /\ listed = <<>>
    /\ reported = <<>>
    /\ others = <<>>
    /\ returned = <<>>

NextExpiry == list_certs_row \/ list_certs_next \/ show_assignments_row

SpecExpiry == InitExpiry /\ [][NextExpiry]_vars

\* ------------------------------------------------------------------ claims
Mutating == {"POST", "PUT"}

MutatingCalls == {i \in DOMAIN calls : calls[i].method \in Mutating}

\* The latest request was answered, with a status below 400.
Answered(o) == ~o.exc /\ o.status < HttpErrorMin

\* C1: no mutating call (POST set_cluster_certificate, POST apply_certificate,
\* PUT SecurityGlobalConfig) is issued by apply-to-VIP, apply-to-node,
\* apply-to-all-nodes or the CRL toggle unless the operator confirmed earlier
\* in the same operation.
C1_NoMutationWithoutConfirmation ==
    op \in {"3", "4", "5", "6"} /\ MutatingCalls # {} => confirmed

\* The apply call of a node failed: transport failure or API error (api_call
\* returned None), or the answer carries the error indicator.
ApplyCallFailed(resp) == resp.kind = "None" \/ "error_code" \in resp.keys

SweepDone == op = "6" /\ pc = "menu" /\ shown = "summary"

C3_InvalidTargetNotCalled ==
    op = "6" => \A i \in MutatingCalls : calls[i].base # BaseUrl(NoneVal)

\* C4: apply-to-VIP and apply-to-single-node report and log success only if
\* the apply call returned a response without an error indicator; a transport
\* failure or API error is never reported as applied successfully.
C4_SuccessOnlyWithoutError ==
    op \in {"4", "5"} /\ pc = "menu" /\ MutatingCalls # {}
        /\ (shown = "applied_successfully" \/ logged = "info_applied")
    => Answered(last) /\ "error_code" \notin last.keys

\* C5: the CRL toggle writes only after a read that succeeded, and the PUT
\* carries exactly the _revision token that read returned.
C5_PutCarriesReadRevision ==
    [][pc = "crl_confirm" /\ Len(calls') > Len(calls)
       => /\ Len(calls) = 1 /\ calls[1].method = "GET"
          /\ Answered(last)
          /\ calls'[2].method = "PUT"
          /\ last.rev # -1
          /\ calls'[2].rev = last.rev]_vars

\* C6: when the backend rejects the PUT because the revision went stale
\* between the read and the write, the toggle does not record or report that
\* CRL checking was disabled.
C6_RejectedWriteNotRecorded ==
    op = "3" /\ pc = "menu" /\ MutatingCalls # {}
        /\ last.status = Stale.status
    => logged # "crl_disabled"

\* The VIP fetch of the listing succeeded: it was answered with a document
\* that carries certificate_id.
VipFetched(o) == Answered(o) /\ o.kind = "obj" /\ "certificate_id" \in o.keys

\* C7: in the listing a certificate is flagged VIP iff the VIP id was fetched
\* and equals its id; with a failed VIP fetch nothing is flagged, certificates
\* without an id included.
C7_VipFlagIffFetchedId ==
    \A i \in DOMAIN rows :
        rows[i] <=> (VipFetched(last) /\ certs[i].id = vip_cert_id)

\* The answer to GET /cluster/nodes is a fetch failure: no response, or a
\* response without a node list.
NodeFetchFailed(o) == ~Answered(o) \/ o.kind # "obj" \/ "nodes" \notin o.keys

\* The all-nodes operation is just past its node fetch.
AfterSweepFetch == op = "6" /\ Len(calls) = 3 /\ calls[3].ep = "nodes"

\* C9: a failed node fetch ends the all-nodes sweep with no apply call and no
\* per-node result, and differs from a fetched empty cluster, which is a
\* finished sweep over zero nodes with its (empty) summary.
C9_FetchFailureFatal ==
    /\ AfterSweepFetch /\ NodeFetchFailed(last)
        => /\ pc \in {"menu", "crashed"}
           /\ MutatingCalls = {}
           /\ results = <<>>
           /\ shown # "summary"
    /\ AfterSweepFetch /\ ~NodeFetchFailed(last) /\ nodes = <<>>
        => /\ pc = "menu"
           /\ MutatingCalls = {}
           /\ results = <<>>
           /\ shown = "summary"

C9_Witness ==
    AfterSweepFetch /\ NodeFetchFailed(last) /\ pc = "menu" /\ shown = "no_nodes"

\* C10: a line typed at the pick_cert / pick_node prompt either is reported as
\* invalid and prompted for again, or is 'back' and selects nothing, or
\* selects an element of the fetched list; the picker never crashes.
C10_PickerContract ==
    [][/\ pc = "pick_cert" =>
            \/ pc' = "pick_cert" /\ shown' = "invalid_selection"
            \/ pc' = "menu" /\ cert_id' = NoneVal
            \/ pc' = AfterPickCert(op) /\ \E i \in DOMAIN certs : cert_id' = certs[i].id
       /\ pc = "pick_node" =>
            \/ pc' = "pick_node" /\ shown' = "invalid_selection"
            \/ pc' = "menu" /\ node' = <<>>
            \/ pc' \in {"menu", "confirm_node"}
                 /\ \E i \in DOMAIN nodes : node' = <<nodes[i]>>]_vars

\* days_left of the specification: floor((expiration - now) / 1 day).
Seconds(t) == t.day * SecondsPerDay + t.sec

DaysLeft(e, t) == (Seconds(e) - Seconds(t)) \div SecondsPerDay

\* The status a rendered cell shows.
Status(cell) ==
    CASE cell.style = "bold red" /\ cell.suffix = "EXPIRED" -> "Expired"
      [] cell.style = "yellow" /\ cell.suffix = "d left" -> "ExpiringSoon"
      [] cell.style = "" /\ cell.suffix = "" -> "Valid"

Classified(cell, d) ==
    /\ Status(cell) = "Expired" <=> d < 0
    /\ Status(cell) = "ExpiringSoon" <=> 0 <= d /\ d < 30
    /\ Status(cell) = "ExpiringSoon" => cell.days = d
    /\ Status(cell) = "Valid" <=> d >= 30

\* C8: for a parseable expiration and any evaluation time, with days_left =
\* floor((expiration - now) / 1 day), the cell is Expired iff days_left < 0,
\* ExpiringSoon with exactly days_left iff 0 <= days_left < 30, Valid iff
\* days_left >= 30, in the listing and in the assignment report alike.
C8_ExpiryClassification ==
    cert.expiration_date.kind = "timestamp" =>
        /\ \A i \in DOMAIN listed :
              Classified(listed[i], DaysLeft(cert.expiration_date, now))
        /\ \A i \in DOMAIN reported :
              Classified(reported[i], DaysLeft(cert.expiration_date, now))
        /\ listed # <<>> /\ reported # <<>> => listed = reported

\* An expiration one second in the past, rendered Expired in both tables.
C8_Witness ==
    /\ cert.expiration_date.kind = "timestamp"
    /\ Seconds(cert.expiration_date) = Seconds(now) - 1
    /\ listed # <<>> /\ Status(listed[1]) = "Expired"
    /\ reported # <<>> /\ Status(reported[1]) = "Expired"

\* The steps of the rollout operations that come after a selection: the
\* confirmation prompts, the node fetches and the sweep.
AfterCertSelection ==
    {"confirm_cluster", "pick_node_fetch", "pick_node", "confirm_node",
     "all_nodes_fetch", "sweep"}

\* C11: in apply-to-VIP, apply-to-node and apply-to-all-nodes, while no
\* certificate is selected (the operator backed out of pick_cert, or there
\* was nothing to pick) the operation never reaches a step after the
\* selection: no confirmation prompt, no confirmation, no mutating call; the
\* same holds in apply-to-node while no node is selected.
C11_BackOutAborts ==
    op \in {"4", "5", "6"} =>
        /\ cert_id = NoneVal =>
               /\ pc \notin AfterCertSelection
               /\ ~confirmed
               /\ MutatingCalls = {}
               /\ shown \notin {"applied_successfully", "error_applying", "summary"}
        /\ node = <<>> =>
               /\ pc # "confirm_node"
               /\ op = "5" => ~confirmed /\ MutatingCalls = {}

\* The operator backed out of the node selection of apply-to-node, after
\* having picked a certificate.
C11_Witness ==
    /\ op = "5" /\ pc = "menu" /\ cert_id # NoneVal /\ node = <<>>
    /\ Len(calls) = 3 /\ Answered(last) /\ shown = "node_table"

\* The validation of option 2 issued its call.
Validated == op = "2" /\ Len(calls) > 2

\* C12: validation issues exactly one validate call, for the chosen
\* certificate, reports Valid iff the answer carries status "OK" and Invalid
\* for every other result (other status, no status field, non-JSON body,
\* failed fetch), and ends at the menu: it never crashes or retries.
C12_ValidationVerdict ==
    Validated =>
        /\ Len(calls) = 3
        /\ calls[3] = Call("GET", "validate", Manager, cert_id, -1)
        /\ cert_id \in CertIds
        /\ pc = "menu"
        /\ shown = "validation_ok" <=> Answered(last) /\ last.verdict = "OK"
        /\ shown # "validation_ok" => shown = "validation_error"

HasAddress(n) == n.fqdn # Absent \/ n.ip_address # Absent

OwnAddress(n) == IF n.fqdn # Absent THEN n.fqdn ELSE n.ip_address

\* The apply call of the i-th fetched node in the sweep's history (after
\* the three GETs of the listing and the node fetch).
SweepCall(i) == calls[3 + i]

\* C14: the all-nodes sweep issues exactly one apply call per fetched node,
\* one at a time in fetched order (the i-th call is for the i-th node and
\* its result is recorded before the next call), each to the node's own
\* address (fqdn if present, otherwise ip_address), never to the manager URL.
C14_OneCallPerNodeAtItsAddress ==
    op = "6" =>
        /\ idx = 0 => MutatingCalls = {}
        /\ idx > 0 =>
            /\ Len(calls) = 3 + (idx - 1)
            /\ Len(results) = idx - 1
            /\ \A i \in 1..(idx - 1) :
                /\ SweepCall(i).method = "POST"
                /\ SweepCall(i).ep = "apply_certificate"
                /\ SweepCall(i).cert = cert_id
                /\ HasAddress(nodes[i])
                /\ SweepCall(i).base = BaseUrl(OwnAddress(nodes[i]))
                /\ SweepCall(i).base # Manager
            /\ pc = "menu" => idx - 1 = Len(nodes)

YesLine(l) ==
    \E i \in DOMAIN l :
        /\ l[i] \in {"y", "Y"}
        /\ \A j \in DOMAIN l \ {i} : l[j] = "sp"

\* C16: in apply-to-VIP, apply-to-node and the CRL toggle no mutating call
\* precedes the answer to the confirmation prompt; an answer that is y or Y
\* with optional surrounding spaces leads to exactly one mutating call, and
\* every other answer, the empty one included, to "Aborted" and none.
C16_DenyByDefault ==
    op \in {"3", "4", "5"} =>
        /\ answer = <<>> => MutatingCalls = {}
        /\ answer # <<>> =>
               /\ pc = "menu"
               /\ IF YesLine(answer[1])
                  THEN /\ MutatingCalls = {Len(calls)}
                       /\ shown # "aborted"
                  ELSE /\ MutatingCalls = {}
                       /\ shown = "aborted"

\* The CRL toggle was confirmed with " Y" and issued its PUT.
C16_Witness ==
    /\ op = "3" /\ answer = << <<"sp", "Y">> >>
    /\ MutatingCalls = {2} /\ calls[2].method = "PUT"

\* C17: when the configuration that the CRL toggle read carries no
\* _revision, the toggle issues no PUT: from its confirmation prompt no
\* request follows.
C17_NoWriteWithoutReadRevision ==
    [][pc = "crl_confirm" /\ last.rev = -1 => calls' = calls]_vars

\* C18: apply-to-node and the all-nodes sweep classify the result of the
\* per-node apply call alike: for every transport result (exception, error
\* status, empty object, object with or without error_code, text), the
\* single-node operation at its apply call takes its error branch exactly
\* when the sweep at its apply call does not mark the node Success.
C18_SameClassification ==
    pc \in {"confirm_node", "sweep"} =>
        \A h \in HttpOutcomes(ApplyBodies) :
            ApplyFailedSingle(api_call(h)) <=> ~SweepSuccess(api_call(h))

\* The operations that only read: list certificates, validate certificate,
\* show current certificate assignments.
ReadOnlyOps == {"1", "2", "7"}

\* C19: in every execution of a read-only operation, whatever the operator
\* types and the backend answers, every request it issues is a GET.
C19_ReadOnlyOpsOnlyGet ==
    op \in ReadOnlyOps => \A i \in DOMAIN calls : calls[i].method = "GET"

\* A validation ran to its end: the two GETs of the listing and the
\* validate call, answered with status "OK".
C19_Witness ==
    /\ op = "2" /\ pc = "menu" /\ Len(calls) = 3
    /\ calls[3].ep = "validate" /\ shown = "validation_ok"

====
